---- MODULE Spec2Model ----
(***************************************************************************)
(* Model of the embedded-interpreter bootstrap of local-translate          *)
(* (src-tauri/src/main.rs): environment resolution, search-path            *)
(* composition, interpreter construction, run and process exit.            *)
(*                                                                         *)
(* Representation.  A path is a sequence of components (strings).  A       *)
(* string value (an environment variable, an element of `paths`) is a      *)
(* sequence of tokens: components, "/" and ":".  An Option<T> is a set     *)
(* with at most one element.  Environment-variable values are valid        *)
(* Unicode.  Every candidate venv directory that exists carries the same   *)
(* lib listing, fsLib.                                                     *)
(***************************************************************************)
EXTENDS Integers, Sequences, FiniteSets, TLC

VARIABLES
    mode,          \* cfg!(dev): "dev" or "release", fixed at compile time
    envVars,       \* process environment: VIRTUAL_ENV, PYTHONPATH (Option<string>)
    fsDirs,        \* the candidate venv directories that exist on disk
    fsLib,         \* Option<listing of <venv>/lib>; None: missing or unreadable
    pc,            \* position of main
    venv_dir,      \* Option<path>, main's local
    entries,       \* Option<sequence of scan items>: what read_dir returned
    paths,         \* main's local Vec<String>
    resource_dir,  \* Option<path>: what resource_dir() reported
    py_env,        \* Option<PythonInterpreterEnv>
    driver,        \* "Unbuilt", "Built", "Running", "Terminated"
    status,        \* Option<i32>: the status run() returned
    exit_code,     \* Option<i32>: main's local exit_code
    mainErr,       \* Option<error kind>: the Err main returned
    processExit,   \* Option<i32>: the code the process ended with
    hist           \* history record: calls and observations made so far

vars == <<mode, envVars, fsDirs, fsLib, pc, venv_dir, entries, paths,
          resource_dir, py_env, driver, status, exit_code, mainErr,
          processExit, hist>>

-----------------------------------------------------------------------------
(* Bounds *)

MaxEntries == 2
MaxScanErrors == 1

-----------------------------------------------------------------------------
(* Option *)

None == {}
Some(x) == {x}
Unwrap(o) == CHOOSE x \in o : TRUE

-----------------------------------------------------------------------------
(* Paths and strings *)

CARGO_MANIFEST_DIR == <<"proj", "src-tauri">>

Parent(p) == SubSeq(p, 1, Len(p) - 1)

Join(p, c) == Append(p, c)

\* to_string_lossy / display of a path: "/c1/c2/..."
ToStringLossy(p) ==
    [i \in 1..(2 * Len(p)) |-> IF i % 2 = 1 THEN "/" ELSE p[i \div 2]]

\* PathBuf::from(String): the components between the separators
PathBufFrom(s) == SelectSeq(s, LAMBDA t : t # "/")

RECURSIVE JoinColon(_)
\* Vec<String>::join(":")
JoinColon(ss) ==
    IF Len(ss) = 0 THEN <<>>
    ELSE IF Len(ss) = 1 THEN ss[1]
    ELSE ss[1] \o <<":">> \o JoinColon(Tail(ss))

\* file_name().to_string_lossy() as characters
NameChars(n) ==
    CASE n = "python3.12" -> <<"p","y","t","h","o","n","3",".","1","2">>
      [] n = "python3.11" -> <<"p","y","t","h","o","n","3",".","1","1">>
      [] n = "pypy3"      -> <<"p","y","p","y","3">>
      [] n = "pyth"       -> <<"p","y","t","h">>
      [] OTHER            -> <<>>

PythonPrefix == <<"p","y","t","h","o","n">>

\* variant: compares only as many characters as the name has
StartsWithTruncated(s, p) ==
    LET n == IF Len(s) < Len(p) THEN Len(s) ELSE Len(p)
    IN SubSeq(s, 1, n) = SubSeq(p, 1, n)

StartsWith(s, p) == Len(s) >= Len(p) /\ SubSeq(s, 1, Len(p)) = p

-----------------------------------------------------------------------------
(* Inputs *)

Names == {"python3.12", "python3.11", "pypy3", "pyth"}

DefaultVenv == <<"proj", ".venv">>
OverrideVenv == <<"opt", "venv">>
VenvCandidates == {DefaultVenv, OverrideVenv}

OldPythonPath == <<"/", "old", "/", "site">>

DirEntries == [name : Names, sp : BOOLEAN]

\* listings of lib: entries with distinct names
Layouts ==
    {l \in SUBSET DirEntries :
        /\ Cardinality(l) <= MaxEntries
        /\ \A a, b \in l : a.name = b.name => a = b}

VerbatimPrefix == "\\\\?\\"
ResourceDirs == {<<VerbatimPrefix, "C:", "app">>, <<"usr", "lib", "app">>}

ExitCodes == {0, 1, 101}

ErrItem == [ok |-> FALSE, name |-> "", sp |-> FALSE]
OkItem(e) == [ok |-> TRUE, name |-> e.name, sp |-> e.sp]

\* std::fs::read_dir(lib): Err, or the entries in some order, each read
\* successfully or with an io::Error
ReadDir(lib) ==
    IF lib = None THEN {None}
    ELSE LET l == Unwrap(lib)
             k == Cardinality(l)
         IN {Some([i \in 1..k |-> IF i \in E THEN ErrItem ELSE OkItem(perm[i])]) :
                <<perm, E>> \in
                  {pe \in [1..k -> l] \X SUBSET (1..k) :
                      /\ \A i, j \in 1..k : pe[1][i] = pe[1][j] => i = j
                      /\ Cardinality(pe[2]) <= MaxScanErrors}}

-----------------------------------------------------------------------------
(* Pure helpers of main.rs *)

\* entries.flatten(): the items read without error, in scan order
Flatten(items) == SelectSeq(items, LAMBDA it : it.ok)

RECURSIVE ScanLoopFirstMatchOnly(_, _)
\* variant: settles on the first prefix-matching entry, with or without
\* a site-packages child
ScanLoopFirstMatchOnly(lib_dir, es) ==
    IF Len(es) = 0 THEN None
    ELSE LET entry == Head(es)
             sp == Join(Join(lib_dir, entry.name), "site-packages")
         IN IF StartsWith(NameChars(entry.name), PythonPrefix)
            THEN (IF entry.sp THEN Some(sp) ELSE None)
            ELSE ScanLoopFirstMatchOnly(lib_dir, Tail(es))

RECURSIVE ScanLoop(_, _)
\* the for loop of find_site_packages over the flattened entries
ScanLoop(lib_dir, es) ==
    IF Len(es) = 0 THEN None
    ELSE LET entry == Head(es)
             sp == Join(Join(lib_dir, entry.name), "site-packages")
         IN IF StartsWith(NameChars(entry.name), PythonPrefix) /\ entry.sp
            THEN Some(sp)
            ELSE ScanLoop(lib_dir, Tail(es))

\* find_site_packages(venv_dir), given what read_dir(venv_dir/lib) returned
find_site_packages(dir, rd) ==
    LET lib_dir == Join(dir, "lib")
    IN IF rd = None THEN None ELSE ScanLoop(lib_dir, Flatten(Unwrap(rd)))

\* var("VIRTUAL_ENV").map(PathBuf::from).unwrap_or_else(project_root/.venv)
ResolveVenvDir(env) ==
    IF env["VIRTUAL_ENV"] # None
    THEN PathBufFrom(Unwrap(env["VIRTUAL_ENV"]))
    ELSE Join(Parent(CARGO_MANIFEST_DIR), ".venv")

\* variant: the existence check is skipped
ExistsUnchecked(dir) == TRUE

\* venv_dir.exists()
Exists(dir) == dir \in fsDirs

src_python == Join(CARGO_MANIFEST_DIR, "src-python")

\* variant: site-packages is pushed before the source directory
ComposePathsSiteFirst(sp) ==
    (IF sp # None THEN <<ToStringLossy(Unwrap(sp))>> ELSE <<>>)
        \o <<ToStringLossy(src_python)>>

\* let mut paths = vec![src_python]; if let Some(sp) = ... { paths.push(sp) }
ComposePaths(sp) ==
    <<ToStringLossy(src_python)>>
        \o (IF sp # None THEN <<ToStringLossy(Unwrap(sp))>> ELSE <<>>)

\* variant: the new value is put in front of the previous one
SetVarPrepend(env, key, value) ==
    [env EXCEPT ![key] =
        IF @ = None THEN Some(value) ELSE Some(value \o <<":">> \o Unwrap(@))]

\* std::env::set_var(key, value)
SetVar(env, key, value) == [env EXCEPT ![key] = Some(value)]

\* variant: the path is passed on as reported
SimplifiedIdentity(p) == p

\* dunce::simplified: drops the verbatim prefix of a path, keeps the rest
Simplified(p) == IF Len(p) > 0 /\ p[1] = VerbatimPrefix THEN Tail(p) ELSE p

Venv(p) == [tag |-> "Venv", path |-> p]
Standalone(p) == [tag |-> "Standalone", path |-> p]

\* variant: every failure status is reported as 1
ExitWithRemapped(code) == IF code = 0 THEN 0 ELSE 1

\* std::process::exit(exit_code): the code handed to the OS
ExitWith(code) == code

-----------------------------------------------------------------------------
(* State machine *)

Init ==
    /\ mode \in {"dev", "release"}
    /\ envVars \in [{"VIRTUAL_ENV", "PYTHONPATH"} ->
                        {None, Some(ToStringLossy(OverrideVenv)), Some(OldPythonPath)}]
    /\ envVars["VIRTUAL_ENV"] \in {None, Some(ToStringLossy(OverrideVenv))}
    /\ envVars["PYTHONPATH"] \in {None, Some(OldPythonPath)}
    /\ fsDirs \in SUBSET VenvCandidates
    /\ fsLib \in {None} \cup {Some(l) : l \in Layouts}
    /\ pc = "start"
    /\ venv_dir = None
    /\ entries = None
    /\ paths = <<>>
    /\ resource_dir = None
    /\ py_env = None
    /\ driver = "Unbuilt"
    /\ status = None
    /\ exit_code = None
    /\ mainErr = None
    /\ processExit = None
    /\ hist = [envReads |-> {}, pathWrites |-> 0, libScans |-> 0,
               envChoices |-> 0, buildCalls |-> 0, runCalls |-> 0,
               failed |-> {}, env0 |-> envVars, fs0 |-> <<fsDirs, fsLib>>]

\* main returns Err(kind): the runtime reports it and exits with failure (1)
ReturnErr(kind) ==
    /\ mainErr' = Some(kind)
    /\ processExit' = Some(1)
    /\ pc' = "done"

\* main.rs 32-46, dev: resolve the venv directory and check that it exists
ResolveVenv ==
    /\ pc = "start"
    /\ mode = "dev"
    /\ LET d == ResolveVenvDir(envVars)
       IN /\ venv_dir' = Some(d)
          /\ IF ~Exists(d)
             THEN /\ ReturnErr("EnvironmentNotFound")
                  /\ hist' = [hist EXCEPT !.envReads = @ \cup {"VIRTUAL_ENV"},
                                          !.failed = @ \cup {"venv"}]
             ELSE /\ pc' = "compose"
                  /\ hist' = [hist EXCEPT !.envReads = @ \cup {"VIRTUAL_ENV"}]
                  /\ UNCHANGED <<mainErr, processExit>>
    /\ UNCHANGED <<mode, envVars, fsDirs, fsLib, entries, paths, resource_dir,
                   py_env, driver, status, exit_code>>

\* main.rs 51-58, dev: compose the search path, export it, choose Venv
ComposeSearchPath ==
    /\ pc = "compose"
    /\ \E rd \in ReadDir(fsLib) :
         LET d == Unwrap(venv_dir)
             ps == ComposePaths(find_site_packages(d, rd))
         IN /\ entries' = rd
            /\ paths' = ps
            /\ envVars' = SetVar(envVars, "PYTHONPATH", JoinColon(ps))
            /\ py_env' = Some(Venv(d))
    /\ hist' = [hist EXCEPT !.libScans = @ + 1, !.pathWrites = @ + 1,
                            !.envChoices = @ + 1]
    /\ pc' = "build"
    /\ UNCHANGED <<mode, fsDirs, fsLib, venv_dir, resource_dir, driver, status,
                   exit_code, mainErr, processExit>>

\* main.rs 60-64, release: ask the host framework for the resource directory
ResolveResourceDir ==
    /\ pc = "start"
    /\ mode = "release"
    /\ \E r \in {None} \cup {Some(p) : p \in ResourceDirs} :
         /\ resource_dir' = r
         /\ IF r = None
            THEN /\ ReturnErr("ResourceDirUnavailable")
                 /\ hist' = [hist EXCEPT !.failed = @ \cup {"resource_dir"}]
                 /\ UNCHANGED py_env
            ELSE /\ py_env' = Some(Standalone(Simplified(Unwrap(r))))
                 /\ hist' = [hist EXCEPT !.envChoices = @ + 1]
                 /\ pc' = "build"
                 /\ UNCHANGED <<mainErr, processExit>>
    /\ UNCHANGED <<mode, envVars, fsDirs, fsLib, venv_dir, entries, paths,
                   driver, status, exit_code>>

\* variant of Build: PYTHONPATH is exported again while building
BuildExportsAgain ==
    /\ pc = "build"
    /\ driver' = "Built"
    /\ pc' = "run"
    /\ envVars' = SetVar(envVars, "PYTHONPATH", JoinColon(paths))
    /\ hist' = [hist EXCEPT !.buildCalls = @ + 1, !.pathWrites = @ + 1]
    /\ UNCHANGED <<mode, fsDirs, fsLib, venv_dir, entries, paths, resource_dir,
                   py_env, status, exit_code, mainErr, processExit>>

\* variant of Build: a failed build is ignored and main goes on to run()
BuildIgnoresFailure ==
    /\ pc = "build"
    /\ \E ok \in BOOLEAN :
         /\ driver' = (IF ok THEN "Built" ELSE driver)
         /\ hist' = [hist EXCEPT !.buildCalls = @ + 1,
                        !.failed = IF ok THEN @ ELSE @ \cup {"build"}]
    /\ pc' = "run"
    /\ UNCHANGED <<mode, envVars, fsDirs, fsLib, venv_dir, entries, paths,
                   resource_dir, py_env, status, exit_code, mainErr, processExit>>

\* main.rs 67-70: PythonInterpreterBuilder::new(..).build()?
Build ==
    /\ pc = "build"
    /\ \E ok \in BOOLEAN :
         IF ok
         THEN /\ driver' = "Built"
              /\ pc' = "run"
              /\ hist' = [hist EXCEPT !.buildCalls = @ + 1]
              /\ UNCHANGED <<mainErr, processExit>>
         ELSE /\ ReturnErr("InterpreterInitError")
              /\ hist' = [hist EXCEPT !.buildCalls = @ + 1,
                                      !.failed = @ \cup {"build"}]
              /\ UNCHANGED driver
    /\ UNCHANGED <<mode, envVars, fsDirs, fsLib, venv_dir, entries, paths,
                   resource_dir, py_env, status, exit_code>>

\* main.rs 72: interpreter.run() is entered
Run ==
    /\ pc = "run"
    /\ driver' = "Running"
    /\ pc' = "running"
    /\ hist' = [hist EXCEPT !.runCalls = @ + 1]
    /\ UNCHANGED <<mode, envVars, fsDirs, fsLib, venv_dir, entries, paths,
                   resource_dir, py_env, status, exit_code, mainErr, processExit>>

\* variant of RunReturns: a non-zero status becomes an Err of main
RunReturnsErr ==
    /\ pc = "running"
    /\ \E c \in ExitCodes :
         /\ status' = Some(c)
         /\ exit_code' = Some(c)
         /\ IF c = 0
            THEN pc' = "exit" /\ UNCHANGED <<mainErr, processExit>>
            ELSE ReturnErr("InterpreterFailed")
    /\ driver' = "Terminated"
    /\ UNCHANGED <<mode, envVars, fsDirs, fsLib, venv_dir, entries, paths,
                   resource_dir, py_env, hist>>

\* main.rs 72: run() returns the interpreter's status into exit_code
RunReturns ==
    /\ pc = "running"
    /\ \E c \in ExitCodes :
         /\ status' = Some(c)
         /\ exit_code' = Some(c)
    /\ driver' = "Terminated"
    /\ pc' = "exit"
    /\ UNCHANGED <<mode, envVars, fsDirs, fsLib, venv_dir, entries, paths,
                   resource_dir, py_env, mainErr, processExit, hist>>

\* main.rs 73: std::process::exit(exit_code)
ProcessExit ==
    /\ pc = "exit"
    /\ processExit' = Some(ExitWith(Unwrap(exit_code)))
    /\ pc' = "done"
    /\ UNCHANGED <<mode, envVars, fsDirs, fsLib, venv_dir, entries, paths,
                   resource_dir, py_env, driver, status, exit_code, mainErr, hist>>

Next ==
    \/ ResolveVenv
    \/ ComposeSearchPath
    \/ ResolveResourceDir
    \/ Build
    \/ Run
    \/ RunReturns
    \/ ProcessExit

Spec == Init /\ [][Next]_vars

-----------------------------------------------------------------------------
(* Reference values the properties are stated against, written out        *)
(* literally rather than through the helpers of main.rs                   *)

MatchingNames == {"python3.12", "python3.11"}

SrcPythonStr == <<"/", "proj", "/", "src-tauri", "/", "src-python">>

\* the venv directory the start environment designates
ExpectedVenv ==
    IF hist.env0["VIRTUAL_ENV"] = None THEN <<"proj", ".venv">> ELSE <<"opt", "venv">>

ExpectedVenvStr ==
    IF hist.env0["VIRTUAL_ENV"] = None
    THEN <<"/", "proj", "/", ".venv">>
    ELSE <<"/", "opt", "/", "venv">>

SitePackagesStr(n) == ExpectedVenvStr \o <<"/", "lib", "/", n, "/", "site-packages">>

\* main has got past the composition of the search path
Composed == hist.libScans > 0

\* the entries the directory scan returned (entries whose read failed are
\* not returned), in scan order
Listed ==
    IF entries = None THEN <<>>
    ELSE LET its == Unwrap(entries)
             F[i \in 0..Len(its)] ==
                 IF i = 0 THEN <<>>
                 ELSE IF its[i].ok THEN Append(F[i - 1], its[i]) ELSE F[i - 1]
         IN F[Len(its)]

MatchIdx == {i \in 1..Len(Listed) : Listed[i].name \in MatchingNames}

UsableIdx == {i \in MatchIdx : Listed[i].sp}

Min(S) == CHOOSE x \in S : \A y \in S : x <= y

-----------------------------------------------------------------------------
(* C1: in development mode, when the venv directory designated by the     *)
(* start environment (VIRTUAL_ENV if set, else <project root>/.venv) does *)
(* not exist, main fails with EnvironmentNotFound and nothing else has    *)
(* happened: lib was never scanned, the environment and the filesystem    *)
(* are as at start, no interpreter was built or run.                      *)
C1_MissingVenvFailsCleanly ==
    (mode = "dev" /\ pc # "start" /\ ExpectedVenv \notin fsDirs) =>
        /\ mainErr = Some("EnvironmentNotFound")
        /\ pc = "done"
        /\ hist.libScans = 0
        /\ entries = None
        /\ hist.pathWrites = 0
        /\ envVars = hist.env0
        /\ <<fsDirs, fsLib>> = hist.fs0
        /\ hist.buildCalls = 0
        /\ hist.runCalls = 0
        /\ driver = "Unbuilt"
        /\ py_env = None

C1_Witness ==
    /\ mode = "dev"
    /\ hist.env0["VIRTUAL_ENV"] # None
    /\ hist.env0["PYTHONPATH"] = Some(OldPythonPath)
    /\ fsDirs = {<<"proj", ".venv">>}
    /\ fsLib # None
    /\ mainErr = Some("EnvironmentNotFound")
    /\ pc = "done"

(* C2: when the scan of lib returns exactly one prefix-matching entry and *)
(* that entry has a site-packages child, the composed search path is      *)
(* exactly <<source directory, that site-packages>>, whatever other       *)
(* entries were returned and in whatever order.                           *)
C2_OneMatchGivesTwoEntries ==
    (Composed /\ Cardinality(MatchIdx) = 1 /\ UsableIdx = MatchIdx) =>
        LET i == Min(MatchIdx)
        IN paths = <<SrcPythonStr, SitePackagesStr(Listed[i].name)>>

C2_Witness ==
    /\ Composed
    /\ Len(Listed) = 2
    /\ MatchIdx = {2}
    /\ Listed[1].sp
    /\ Listed[2].sp
    /\ paths = <<SrcPythonStr, SitePackagesStr(Listed[2].name)>>

(* C3: when lib is missing, unreadable, empty or has no prefix-matching   *)
(* entry, composition does not fail: the search path is exactly the       *)
(* source directory and main stands at interpreter construction.          *)
C3_NoMatchGivesSourceOnly ==
    (Composed /\ MatchIdx = {}) =>
        /\ paths = <<SrcPythonStr>>
        /\ mainErr \in {None, Some("InterpreterInitError")}
        /\ hist.buildCalls = 0 => (pc = "build" /\ mainErr = None)
        /\ py_env # None

C3_Witness ==
    /\ Composed
    /\ Len(Listed) = 2
    /\ MatchIdx = {}
    /\ \A i \in 1..2 : Listed[i].sp
    /\ paths = <<SrcPythonStr>>
    /\ driver = "Built"

C3_WitnessMissingLib ==
    /\ Composed
    /\ fsLib = None
    /\ paths = <<SrcPythonStr>>
    /\ driver = "Built"

(* C4: PYTHONPATH is written at most once, in a step before the           *)
(* interpreter is built; from the build on (and so once run() has begun)  *)
(* the host leaves the environment alone.                                 *)
C4_PathWrittenOnceBeforeBuild ==
    /\ [](hist.pathWrites <= 1)
    /\ [][(envVars' # envVars \/ hist'.pathWrites # hist.pathWrites) =>
              /\ hist.buildCalls = 0
              /\ hist'.buildCalls = 0
              /\ driver = "Unbuilt"
              /\ driver' = "Unbuilt"
              /\ hist.pathWrites = 0]_vars

C4_Witness ==
    /\ mode = "dev"
    /\ driver = "Terminated"
    /\ hist.pathWrites = 1
    /\ envVars["PYTHONPATH"] # hist.env0["PYTHONPATH"]

(* C5: when run() has returned status c and the process has ended, the    *)
(* process exit code is exactly c, zero or not.                           *)
C5_ExitStatusVerbatim ==
    (status # None /\ pc = "done") => (processExit = status /\ mainErr = None)

C5_Witness ==
    /\ status = Some(101)
    /\ pc = "done"
    /\ processExit = Some(101)

RankOf(d) ==
    CASE d = "Unbuilt" -> 0
      [] d = "Built" -> 1
      [] d = "Running" -> 2
      [] d = "Terminated" -> 3

(* C6: the driver only steps Unbuilt -> Built -> Running -> Terminated,   *)
(* one state at a time and never back; run() is called at most once and   *)
(* only after a successful build; from Running on main returns no error   *)
(* and the process ends only by exit with the interpreter's status.       *)
C6_DriverForwardOnly ==
    /\ [][driver' # driver => RankOf(driver') = RankOf(driver) + 1]_vars
    /\ [](/\ hist.runCalls <= 1
          /\ hist.runCalls = 1 => (hist.buildCalls = 1 /\ "build" \notin hist.failed)
          /\ driver \in {"Running", "Terminated"} <=> hist.runCalls = 1
          /\ driver = "Terminated" <=> status # None
          /\ driver \in {"Running", "Terminated"} => mainErr = None
          /\ (driver \in {"Running", "Terminated"} /\ processExit # None) =>
                 (driver = "Terminated" /\ processExit = status))

C6_Witness ==
    /\ driver = "Terminated"
    /\ pc = "done"
    /\ status = Some(1)
    /\ processExit = Some(1)

(* C7: each host-level startup failure (venv missing, resource directory  *)
(* unavailable, interpreter build failure) ends main with the matching    *)
(* Err and a non-zero exit; the failing step ran once and run() was never *)
(* entered.                                                               *)
C7_StartupFailureFatal ==
    /\ (mode = "dev" /\ pc # "start" /\ ExpectedVenv \notin fsDirs) =>
           mainErr = Some("EnvironmentNotFound")
    /\ (mode = "release" /\ pc # "start" /\ resource_dir = None) =>
           mainErr = Some("ResourceDirUnavailable")
    /\ "build" \in hist.failed => mainErr = Some("InterpreterInitError")
    /\ hist.failed # {} => mainErr # None
    /\ Cardinality(hist.failed) <= 1
    /\ hist.buildCalls <= 1
    /\ hist.libScans <= 1
    /\ mainErr # None =>
           /\ pc = "done"
           /\ processExit # None
           /\ 0 \notin processExit
           /\ hist.runCalls = 0
           /\ driver = "Unbuilt"
           /\ status = None

C7_Witness ==
    /\ mode = "release"
    /\ resource_dir # None
    /\ hist.failed = {"build"}
    /\ mainErr = Some("InterpreterInitError")
    /\ processExit = Some(1)

(* C8 as stated: if the first prefix-matching entry the scan returns has  *)
(* no site-packages child, the search path is the source directory only,  *)
(* whatever the later entries contain.                                    *)
C8_Original ==
    (Composed /\ MatchIdx # {} /\ ~Listed[Min(MatchIdx)].sp) =>
        paths = <<SrcPythonStr>>

(* C8 amended: the composer takes the first entry the scan returns that   *)
(* is prefix-matching and has a site-packages child; the search path is   *)
(* the source directory only exactly when no returned prefix-matching     *)
(* entry has one.                                                         *)
C8_FirstUsableMatch ==
    Composed =>
        IF UsableIdx = {}
        THEN paths = <<SrcPythonStr>>
        ELSE paths = <<SrcPythonStr, SitePackagesStr(Listed[Min(UsableIdx)].name)>>

C8_Witness ==
    /\ Composed
    /\ Len(Listed) = 2
    /\ MatchIdx = {1, 2}
    /\ ~Listed[1].sp
    /\ Listed[2].sp
    /\ paths = <<SrcPythonStr, SitePackagesStr(Listed[2].name)>>

(* C9: one environment variant is chosen, once, before the interpreter is *)
(* built, and kept: Venv(venv directory) in development mode,             *)
(* Standalone(resource directory without its verbatim prefix) in release  *)
(* mode; release mode reads no VIRTUAL_ENV, scans no venv and leaves the  *)
(* environment as it was.                                                 *)
C9_OneVariantPerRun ==
    /\ [][py_env # None => py_env' = py_env]_vars
    /\ [](/\ hist.envChoices <= 1
          /\ py_env # None <=> hist.envChoices = 1
          /\ hist.buildCalls > 0 => py_env # None
          /\ (py_env # None /\ mode = "dev") =>
                 py_env = {[tag |-> "Venv", path |-> ExpectedVenv]}
          /\ (py_env # None /\ mode = "release") =>
                 \E e \in py_env :
                    /\ e.tag = "Standalone"
                    /\ e.path[1] # VerbatimPrefix
                    /\ \/ resource_dir = {e.path}
                       \/ resource_dir = {<<VerbatimPrefix>> \o e.path}
          /\ mode = "release" =>
                 /\ "VIRTUAL_ENV" \notin hist.envReads
                 /\ venv_dir = None
                 /\ hist.libScans = 0
                 /\ entries = None
                 /\ hist.pathWrites = 0
                 /\ envVars = hist.env0)

C9_Witness ==
    /\ mode = "release"
    /\ resource_dir = {<<VerbatimPrefix, "C:", "app">>}
    /\ py_env = {[tag |-> "Standalone", path |-> <<"C:", "app">>]}
    /\ hist.env0["VIRTUAL_ENV"] # None
    /\ hist.env0["PYTHONPATH"] # None
    /\ driver = "Built"

(* C10: in development mode with an existing venv, from the composition   *)
(* on PYTHONPATH holds exactly the composed search path (source           *)
(* directory, then at most one site-packages entry, joined by ":") and    *)
(* nothing of its previous value.                                         *)
C10_PathOverwritten ==
    (mode = "dev" /\ Composed) =>
        /\ Len(paths) \in {1, 2}
        /\ paths[1] = SrcPythonStr
        /\ Len(paths) = 2 => \E n \in MatchingNames : paths[2] = SitePackagesStr(n)
        /\ envVars["PYTHONPATH"] =
               {IF Len(paths) = 1 THEN paths[1]
                ELSE paths[1] \o <<":">> \o paths[2]}

C10_Witness ==
    /\ mode = "dev"
    /\ hist.env0["PYTHONPATH"] = Some(OldPythonPath)
    /\ Len(paths) = 2
    /\ envVars["PYTHONPATH"] = {SrcPythonStr \o <<":">> \o SitePackagesStr("python3.12")}
    /\ driver = "Built"

====
